---- MODULE Spec2Model ----
(***************************************************************************)
(* StableDiffusionLoRASetup (modules/modelSetup/StableDiffusionLoRASetup.py)*)
(* as a state machine over one StableDiffusionModel: the adapter slots, the *)
(* gradient modes, the partially trainable embedding matrix with its        *)
(* snapshot and freeze mask, the device tiers and the learning-rate report. *)
(*                                                                         *)
(* The methods read two configuration objects: the `config` parameter and  *)
(* the free name `args` (lines 61-66, 109-114, 127-128, 202-203).  `args`   *)
(* is not bound anywhere in the file; the variable args models the ambient *)
(* binding: either unbound (evaluating it raises NameError at that line,   *)
(* after the statements before it have run) or bound to a module-level     *)
(* configuration object with fields of its own.                            *)
(***************************************************************************)
EXTENDS Integers, Sequences, FiniteSets, TLC

\* ---------------------------------------------------------------- bounds
\* epochs of a run are 0..MaxEpoch; stop epochs are drawn from the same range
MaxEpoch == 2
\* rows of the embedding matrix before any embedding token is considered
VocabSize == 1
\* setup_model is called at most this many times on one model
MaxSetupCalls == 2
\* the scheduler returns at most this many rates; global steps are 0..MaxStep
MaxRates == 3
MaxStep == 1
\* at most this many metrics in the sink before a report is taken
MaxSink == 2

Epochs == 0..MaxEpoch
\* the values of a row: rows are only copied and compared for equality, so
\* two values tell a changed row from an unchanged one
Vals == {0, 1}
\* the matrix has the vocabulary rows and one row for the embedding's token
NumRows == VocabSize + 1
Rows == 1..NumRows
\* the token ids the embedding created from the seed text occupies
NewTokenIds == {NumRows}
\* the token ids an embedding supplied by the loader occupies
LoaderTokenIds == {1}

VARIABLES
    config,       \* the TrainConfig passed to every call of the run
    args,         \* the ambient binding of the free name `args`
    debug_mode,   \* self.debug_mode
    model,        \* the StableDiffusionModel
    obs,          \* what the last call did (its name, how it ended, counters)
    sink          \* the metrics sink: the (name, step) pairs written so far

vars == <<config, args, debug_mode, model, obs, sink>>

\* ------------------------------------------------- collaborators (defined outside this file)

\* PhaseGate: the stop epoch of the text encoder has elapsed
stop_text_encoder_training_elapsed(c, epoch) == epoch >= c.text_encoder_stop

\* PhaseGate: the stop epoch of the denoiser has elapsed
stop_unet_training_elapsed(c, epoch) == epoch >= c.unet_stop

\* EmbeddingGuard.restore: frozen rows are overwritten from the snapshot
embeddings_after_optimizer_step(weight, original, mask) ==
    [r \in 1..Len(weight) |-> IF mask[r] THEN original[r] ELSE weight[r]]

\* EmbeddingGuard.snapshot: a copy of every row, and the mask of the rows
\* that are not token ids of the embedding
add_embeddings_to_clip(weight, token_ids) ==
    [original |-> weight,
     mask |-> [r \in 1..Len(weight) |-> r \notin token_ids]]

\* the token ids of a new embedding created from the seed text
create_new_embedding == NewTokenIds

\* ------------------------------------------------------------ setup_model

\* SetupAdapters without the None checks of lines 82 and 87
SetupAdapters_Always(m, c) ==
    [m EXCEPT
       !.text_encoder_lora = m.te_wrappers_made + 2,
       !.te_wrappers_made = @ + 1,
       !.te_lora_grad = TRUE,
       !.unet_lora = m.unet_wrappers_made + 2,
       !.unet_wrappers_made = @ + 1,
       !.unet_lora_grad = TRUE,
       !.dropout_set = TRUE]

\* lines 82-93: an adapter wrapper is constructed only into an empty slot
\* (0 is None, 1 a wrapper supplied by the loader, 2.. wrappers constructed
\* here); then the dropout probability is set on both
SetupAdapters(m, c) ==
    LET te_new == m.text_encoder_lora = 0
        unet_new == m.unet_lora = 0
    IN [m EXCEPT
          !.text_encoder_lora = IF te_new THEN m.te_wrappers_made + 2 ELSE @,
          !.te_wrappers_made = IF te_new THEN @ + 1 ELSE @,
          !.te_lora_grad = IF te_new THEN TRUE ELSE @,
          !.unet_lora = IF unet_new THEN m.unet_wrappers_made + 2 ELSE @,
          !.unet_wrappers_made = IF unet_new THEN @ + 1 ELSE @,
          !.unet_lora_grad = IF unet_new THEN TRUE ELSE @,
          !.dropout_set = TRUE]

\* SetupBaseModules without line 97: the autoencoder is left as loaded
SetupBaseModules_NoVae(m) ==
    [m EXCEPT !.text_encoder_grad = FALSE,
              !.embedding_grad = FALSE,
              !.unet_grad = FALSE]

\* lines 95-97: gradients off on every weight of the three base modules,
\* the input embedding matrix of the text encoder included
SetupBaseModules(m) ==
    [m EXCEPT !.text_encoder_grad = FALSE,
              !.embedding_grad = FALSE,
              !.unet_grad = FALSE,
              !.vae_grad = FALSE]

\* lines 99-107: the adapters' gradient modes, from the passed config and
\* the progress stored on the model
SetupAdapterGrads(m, c) ==
    LET train_text_encoder ==
            c.text_encoder_train /\ ~stop_text_encoder_training_elapsed(c, m.epoch)
        train_unet ==
            c.unet_train /\ ~stop_unet_training_elapsed(c, m.epoch)
    IN [m EXCEPT
          !.te_lora_grad = IF m.text_encoder_lora # 0 THEN train_text_encoder ELSE @,
          !.unet_lora_grad = IF m.unet_lora # 0 THEN train_unet ELSE @]

\* lines 109-112: the embedding matrix trains inside its window (ambient args)
SetupEmbeddingGrad(m) ==
    LET train_embedding ==
            args.train_embedding /\ (m.epoch < args.train_embedding_epochs)
    IN [m EXCEPT !.embedding_grad = IF train_embedding THEN TRUE ELSE @]

\* lines 114-115: the denoiser adapter's mode is set a second time, from the
\* ambient args
SetupUnetOverride(m) ==
    LET train_unet == args.train_unet /\ (m.epoch < args.train_unet_epochs)
    IN [m EXCEPT !.unet_lora_grad = train_unet]

\* lines 117-121: cast to the adapter dtype and hook into the base modules
SetupHooks(m) == [m EXCEPT !.hooked = TRUE]

\* SetupEmbeddings without the test of line 123
SetupEmbeddings_Always(m) == [m EXCEPT !.embeddings = <<create_new_embedding>>]

\* lines 123-131: with no embedding on the model, one is created
SetupEmbeddings(m) ==
    IF Len(m.embeddings) = 0
    THEN [m EXCEPT !.embeddings = <<create_new_embedding>>]
    ELSE m

\* lines 133-139: the snapshot and the mask are taken for the first embedding
SetupSnapshot(m) ==
    LET taken == add_embeddings_to_clip(m.weight, m.embeddings[1])
    IN [m EXCEPT !.original_token_embeds = taken.original,
                 !.untrainable_mask = taken.mask,
                 !.snapshots_taken = @ + 1]

\* lines 141-143
SetupNoiseScheduler(m, c) ==
    IF c.rescale THEN [m EXCEPT !.v_prediction = TRUE] ELSE m

\* lines 31-47: the modules whose parameters seed the EMA tracker
create_parameters(c) ==
    (IF c.text_encoder_train THEN <<"te">> ELSE <<>>)
    \o (IF c.train_embedding THEN <<"emb">> ELSE <<>>)
    \o (IF c.unet_train THEN <<"unet">> ELSE <<>>)

\* lines 49-75: the modules of the optimizer's parameter groups, in order
\* (line 61 reads the ambient args; the caller checks that it is bound)
create_parameters_for_optimizer(c) ==
    (IF c.text_encoder_train THEN <<"te">> ELSE <<>>)
    \o (IF args.train_embedding THEN <<"emb">> ELSE <<>>)
    \o (IF c.unet_train THEN <<"unet">> ELSE <<>>)

\* SetupOptimizer without the del of line 148
SetupOptimizer_KeepsState(m, c) ==
    [m EXCEPT !.optimizer = [built |-> TRUE,
                             groups |-> create_parameters_for_optimizer(c),
                             resumed |-> m.optimizer_state_dict = "state"],
              !.optimizer_state_uses = @ + (IF m.optimizer_state_dict = "state" THEN 1 ELSE 0)]

\* lines 145-148: the optimizer is built from the groups and the prior
\* state, and the prior state attribute is deleted
SetupOptimizer(m, c) ==
    [m EXCEPT !.optimizer = [built |-> TRUE,
                             groups |-> create_parameters_for_optimizer(c),
                             resumed |-> m.optimizer_state_dict = "state"],
              !.optimizer_state_dict = "deleted",
              !.optimizer_state_uses = @ + (IF m.optimizer_state_dict = "state" THEN 1 ELSE 0)]

\* lines 150-153: the same for the EMA tracker
SetupEma(m, c) ==
    [m EXCEPT !.ema = [built |-> TRUE,
                       params |-> create_parameters(c),
                       resumed |-> m.ema_state_dict = "state"],
              !.ema_state_dict = "deleted",
              !.ema_state_uses = @ + (IF m.ema_state_dict = "state" THEN 1 ELSE 0)]

\* what a call leaves in obs
Called(op, outcome) ==
    [obs EXCEPT !.last_op = op, !.outcome = outcome, !.repaired = FALSE,
                !.repeat = FALSE]

\* lines 77-155.  Line 109 raises NameError when args is unbound; line 146
\* raises AttributeError when an earlier call deleted optimizer_state_dict.
setup_model ==
    /\ obs.setup_calls < MaxSetupCalls
    /\ LET m1 == SetupAdapterGrads(SetupBaseModules(SetupAdapters(model, config)), config)
           m2 == SetupEmbeddings(SetupHooks(SetupUnetOverride(SetupEmbeddingGrad(m1))))
           m3 == SetupNoiseScheduler(SetupSnapshot(m2), config)
           outcome == IF ~args.bound THEN "NameError"
                      ELSE IF m3.optimizer_state_dict = "deleted" THEN "AttributeError"
                      ELSE "ok"
       IN /\ model' = CASE outcome = "NameError" -> m1
                        [] outcome = "AttributeError" -> m3
                        [] OTHER -> SetupEma(SetupOptimizer(m3, config), config)
          /\ obs' = [Called("setup_model", outcome) EXCEPT !.setup_calls = @ + 1]
    /\ UNCHANGED <<config, args, debug_mode, sink>>

\* --------------------------------------------------- after_optimizer_step

\* StepAdapterGrads without the stop-epoch test of the text encoder
StepAdapterGrads_NoTextEncoderStop(m, c, train_progress) ==
    LET train_unet ==
            c.unet_train /\ ~stop_unet_training_elapsed(c, m.epoch)
    IN [m EXCEPT
          !.te_lora_grad = IF m.text_encoder_lora # 0 THEN c.text_encoder_train ELSE @,
          !.unet_lora_grad = IF m.unet_lora # 0 THEN train_unet ELSE @]

\* StepAdapterGrads with the stop tests true only in the stop epoch itself
StepAdapterGrads_OnlyInStopEpoch(m, c, train_progress) ==
    LET train_text_encoder == c.text_encoder_train /\ m.epoch # c.text_encoder_stop
        train_unet == c.unet_train /\ m.epoch # c.unet_stop
    IN [m EXCEPT
          !.te_lora_grad = IF m.text_encoder_lora # 0 THEN train_text_encoder ELSE @,
          !.unet_lora_grad = IF m.unet_lora # 0 THEN train_unet ELSE @]

\* lines 192-200: the adapters' gradient modes, from the passed config and
\* the progress stored on the model (the train_progress argument is not read)
StepAdapterGrads(m, c, train_progress) ==
    LET train_text_encoder ==
            c.text_encoder_train /\ ~stop_text_encoder_training_elapsed(c, m.epoch)
        train_unet ==
            c.unet_train /\ ~stop_unet_training_elapsed(c, m.epoch)
    IN [m EXCEPT
          !.te_lora_grad = IF m.text_encoder_lora # 0 THEN train_text_encoder ELSE @,
          !.unet_lora_grad = IF m.unet_lora # 0 THEN train_unet ELSE @]

\* StepEmbeddingGrad with the window closing one epoch late (<= for <)
StepEmbeddingGrad_LateClose(m, train_progress) ==
    LET train_embedding == m.epoch <= args.train_embedding_epochs
    IN IF args.train_embedding /\ ~train_embedding
       THEN [m EXCEPT !.embedding_grad = FALSE]
       ELSE m

\* StepEmbeddingGrad flipping the matrix's mode once the window has closed
StepEmbeddingGrad_Toggle(m, train_progress) ==
    LET train_embedding == m.epoch < args.train_embedding_epochs
    IN IF args.train_embedding /\ ~train_embedding
       THEN [m EXCEPT !.embedding_grad = ~@]
       ELSE m

\* lines 202-204: once the window has closed the matrix stops taking gradients
StepEmbeddingGrad(m, train_progress) ==
    LET train_embedding == m.epoch < args.train_embedding_epochs
    IN IF args.train_embedding /\ ~train_embedding
       THEN [m EXCEPT !.embedding_grad = FALSE]
       ELSE m

\* StepRestore with the mask inverted: the trainable rows are overwritten
StepRestore_InvertedMask(m) ==
    [m EXCEPT !.weight = embeddings_after_optimizer_step(
                             m.weight, m.original_token_embeds,
                             [r \in 1..Len(m.untrainable_mask) |-> ~m.untrainable_mask[r]])]

\* StepRestore run only while the embedding matrix takes gradients
StepRestore_OnlyWhileTraining(m) ==
    IF m.embedding_grad
    THEN [m EXCEPT !.weight = embeddings_after_optimizer_step(
                                  m.weight, m.original_token_embeds, m.untrainable_mask)]
    ELSE m

\* lines 206-210: the frozen rows are restored from the model's snapshot
\* under the model's mask
StepRestore(m) ==
    [m EXCEPT !.weight = embeddings_after_optimizer_step(
                             m.weight, m.original_token_embeds, m.untrainable_mask)]

\* the snapshot and the mask exist (they are None until setup_model sets them)
HasSnapshot(m) == Len(m.original_token_embeds) > 0 /\ Len(m.untrainable_mask) > 0

\* some frozen row does not hold its snapshot value
FrozenRowsPerturbed(m) ==
    /\ HasSnapshot(m)
    /\ \E r \in Rows : m.untrainable_mask[r] /\ m.weight[r] # m.original_token_embeds[r]

\* lines 186-210.  Line 202 raises NameError when args is unbound; the
\* restore raises when the model has no snapshot or mask.
after_optimizer_step_call(train_progress) ==
    LET m1 == StepAdapterGrads(model, config, train_progress)
        m2 == StepEmbeddingGrad(m1, train_progress)
        outcome == IF ~args.bound THEN "NameError"
                   ELSE IF ~HasSnapshot(m2) THEN "TypeError"
                   ELSE "ok"
    IN /\ model' = CASE outcome = "NameError" -> m1
                     [] outcome = "TypeError" -> m2
                     [] OTHER -> StepRestore(m2)
       /\ obs' = [Called("after_optimizer_step", outcome) EXCEPT
                     !.repaired = (outcome = "ok" /\ FrozenRowsPerturbed(m2)),
                     !.repeat = (obs.last_op = "after_optimizer_step" /\ obs.outcome = "ok")]
       /\ UNCHANGED <<config, args, debug_mode, sink>>

after_optimizer_step ==
    \E train_progress \in Epochs : after_optimizer_step_call(train_progress)


\* ---------------------------------------------------- setup_train_device

\* line 162
vae_on_train_device(c) == debug_mode \/ c.align_prop

\* text_encoder_on_train_device without the latent-caching term
text_encoder_on_train_device_NoCaching(c) ==
    \/ c.text_encoder_train
    \/ c.train_embedding
    \/ c.align_prop

\* lines 163-167
text_encoder_on_train_device(c) ==
    \/ c.text_encoder_train
    \/ c.train_embedding
    \/ c.align_prop
    \/ ~c.latent_caching

\* lines 169-172: each module is moved to its tier
PlaceModules(m, c) ==
    [m EXCEPT
       !.text_encoder_device = IF text_encoder_on_train_device(c) THEN "train" ELSE "temp",
       !.vae_device = IF vae_on_train_device(c) THEN "train" ELSE "temp",
       !.unet_device = "train",
       !.depth_estimator_device = "temp"]

\* lines 174-184: training or evaluation behaviour of the base modules
SetModes(m, c) ==
    [m EXCEPT
       !.text_encoder_mode = IF c.text_encoder_train THEN "train" ELSE "eval",
       !.vae_mode = "eval",
       !.unet_mode = IF c.unet_train THEN "train" ELSE "eval"]

\* lines 157-184
setup_train_device ==
    /\ model' = SetModes(PlaceModules(model, config), config)
    /\ obs' = [Called("setup_train_device", "ok") EXCEPT !.placed = TRUE]
    /\ UNCHANGED <<config, args, debug_mode, sink>>

\* -------------------------------------------------- report_learning_rates

\* lines 220-224: the names of the reported rates
ReportNames(c) ==
    (IF c.text_encoder_train THEN <<"te">> ELSE <<>>)
    \o (IF c.unet_train THEN <<"unet">> ELSE <<>>)

\* ReportCountsAgree asserting only that there are enough rates
ReportCountsAgree_AtLeast(lrs, names) == Len(lrs) >= Len(names)

\* line 225: the assertion on the two counts
ReportCountsAgree(lrs, names) == Len(lrs) = Len(names)

\* optimizer.maybe_adjust_lrs (defined outside this file): one adjusted rate per raw rate,
\* in the same positions
maybe_adjust_lrs(lrs) == [i \in 1..Len(lrs) |-> [group |-> lrs[i], adjusted |-> TRUE]]

\* lines 229-232: zip(names, lrs) stops at the shorter of the two
ReportMetrics(names, lrs, step) ==
    [i \in 1..(IF Len(names) <= Len(lrs) THEN Len(names) ELSE Len(lrs)) |->
        [name |-> "lr/" \o names[i], lr |-> lrs[i], step |-> step]]

\* lines 212-232.  scheduler.get_last_lr() returns one rate per group of the
\* optimizer the scheduler was built on; a rate is written here as the
\* position of its group.
report_learning_rates_call(lrs) ==
    LET names == ReportNames(config)
        agree == ReportCountsAgree(lrs, names)
    IN /\ sink' = IF agree
                  THEN sink \o ReportMetrics(names, maybe_adjust_lrs(lrs), model.global_step)
                  ELSE sink
       /\ obs' = [Called("report_learning_rates", IF agree THEN "ok" ELSE "AssertionError")
                    EXCEPT !.lrs = lrs,
                           !.sink_before = Len(sink),
                           !.hook_calls = IF agree THEN 1 ELSE 0]
       /\ UNCHANGED <<config, args, debug_mode, model>>

report_learning_rates ==
    /\ Len(sink) <= MaxSink
    /\ \E n \in 0..MaxRates : report_learning_rates_call([i \in 1..n |-> i])

\* ---------------------------------------------------------- the training loop

\* optimizer.step(): the optimizer built by setup_model holds the embedding
\* matrix as one tensor and may leave any value in any of its rows (two
\* updates in a row leave nothing one update cannot leave)
OptimizerUpdate ==
    /\ model.optimizer.built
    /\ obs.last_op # "optimizer_update"
    /\ \E w \in [Rows -> Vals] : model' = [model EXCEPT !.weight = w]
    /\ obs' = Called("optimizer_update", "ok")
    /\ UNCHANGED <<config, args, debug_mode, sink>>

\* the training loop advances the progress stored on the model
AdvanceEpoch ==
    /\ model.epoch < MaxEpoch
    /\ model' = [model EXCEPT !.epoch = @ + 1]
    /\ obs' = Called("advance_epoch", "ok")
    /\ UNCHANGED <<config, args, debug_mode, sink>>

\* the training loop advances the global step stored on the model
AdvanceStep ==
    /\ model.global_step < MaxStep
    /\ model' = [model EXCEPT !.global_step = @ + 1]
    /\ obs' = Called("advance_step", "ok")
    /\ UNCHANGED <<config, args, debug_mode, sink>>

\* ------------------------------------------------------------------ Init

\* the model as the loader leaves it: freshly loaded parameters take
\* gradients, adapters and embeddings may have been loaded, prior optimizer
\* and EMA state may have been loaded
LoadedModel(te_lora, unet_lora, embeddings, weight, opt_state, ema_state) ==
    [text_encoder_lora |-> te_lora, unet_lora |-> unet_lora,
     te_wrappers_made |-> 0, unet_wrappers_made |-> 0,
     te_lora_grad |-> te_lora # 0, unet_lora_grad |-> unet_lora # 0,
     dropout_set |-> FALSE, hooked |-> FALSE,
     text_encoder_grad |-> TRUE, embedding_grad |-> TRUE,
     unet_grad |-> TRUE, vae_grad |-> TRUE,
     epoch |-> 0, global_step |-> 0,
     embeddings |-> embeddings, weight |-> weight,
     original_token_embeds |-> <<>>, untrainable_mask |-> <<>>,
     snapshots_taken |-> 0, v_prediction |-> FALSE,
     optimizer |-> [built |-> FALSE, groups |-> <<>>, resumed |-> FALSE],
     ema |-> [built |-> FALSE, params |-> <<>>, resumed |-> FALSE],
     optimizer_state_dict |-> opt_state, ema_state_dict |-> ema_state,
     optimizer_state_uses |-> 0, ema_state_uses |-> 0,
     text_encoder_device |-> "temp", vae_device |-> "temp",
     unet_device |-> "temp", depth_estimator_device |-> "temp",
     text_encoder_mode |-> "eval", vae_mode |-> "eval", unet_mode |-> "eval"]

NoCall ==
    [last_op |-> "none", outcome |-> "ok", setup_calls |-> 0, repaired |-> FALSE,
     repeat |-> FALSE, placed |-> FALSE,
     lrs |-> <<>>, sink_before |-> 0, hook_calls |-> 0]

Config(te_train, te_stop, un_train, un_stop, emb_train, align, caching, rescale) ==
    [text_encoder_train |-> te_train, text_encoder_stop |-> te_stop,
     unet_train |-> un_train, unet_stop |-> un_stop,
     train_embedding |-> emb_train, align_prop |-> align,
     latent_caching |-> caching, rescale |-> rescale]

Args(train_embedding, train_embedding_epochs, train_unet, train_unet_epochs) ==
    [bound |-> TRUE,
     train_embedding |-> train_embedding,
     train_embedding_epochs |-> train_embedding_epochs,
     train_unet |-> train_unet, train_unet_epochs |-> train_unet_epochs]

Unbound ==
    [bound |-> FALSE, train_embedding |-> FALSE, train_embedding_epochs |-> 0,
     train_unet |-> FALSE, train_unet_epochs |-> 0]

\* the loader supplies no embedding or one
LoadedEmbeddings == {<<>>, <<LoaderTokenIds>>}

ZeroWeight == [r \in Rows |-> 0]

\* ---- the embedding guard: every configuration of the embedding window,
\* ---- adapters trained or not, any loaded embedding, any optimizer update
Init ==
    /\ config \in {Config(a, 1, a, 1, e, FALSE, TRUE, FALSE) :
                      a \in BOOLEAN, e \in BOOLEAN}
    /\ args \in {Unbound} \cup {Args(e, l, e, l) : e \in BOOLEAN, l \in Epochs}
    /\ debug_mode = FALSE
    /\ model \in {LoadedModel(0, 0, e, w, "none", "none") :
                     e \in LoadedEmbeddings, w \in [Rows -> Vals]}
    /\ obs = NoCall
    /\ sink = <<>>

Next ==
    \/ setup_model
    \/ after_optimizer_step
    \/ OptimizerUpdate
    \/ AdvanceEpoch

Spec == Init /\ [][Next]_vars

\* ---- the gradient modes: every combination of the trainable flags and
\* ---- stop epochs of the passed config and of the ambient args
InitGrad ==
    /\ config \in {Config(a, s, b, t, FALSE, FALSE, TRUE, FALSE) :
                      a \in BOOLEAN, s \in Epochs, b \in BOOLEAN, t \in Epochs}
    /\ args \in {Unbound} \cup {Args(e, l, u, k) :
                      e \in BOOLEAN, l \in Epochs, u \in BOOLEAN, k \in Epochs}
    /\ debug_mode = FALSE
    /\ model \in {LoadedModel(a, b, <<>>, ZeroWeight, "none", "none") :
                     a \in {0, 1}, b \in {0, 1}}
    /\ obs = NoCall
    /\ sink = <<>>

NextGrad ==
    \/ setup_model
    \/ after_optimizer_step
    \/ AdvanceEpoch

SpecGrad == InitGrad /\ [][NextGrad]_vars

\* ---- resuming: the loader may hand over a prior optimizer state and a
\* ---- prior EMA state, the adapters may come from a checkpoint
PriorStates == {"none", "state"}

InitResume ==
    /\ config \in {Config(a, 1, b, 1, FALSE, FALSE, TRUE, FALSE) : a \in BOOLEAN, b \in BOOLEAN}
    /\ args \in {Unbound} \cup {Args(e, 1, u, 1) : e \in BOOLEAN, u \in BOOLEAN}
    /\ debug_mode = FALSE
    /\ model \in {LoadedModel(t, t, <<>>, ZeroWeight, o, e) :
                     t \in {0, 1}, o \in PriorStates, e \in PriorStates}
    /\ obs = NoCall
    /\ sink = <<>>

SpecResume == InitResume /\ [][NextGrad]_vars

\* ---- the device tiers: every combination of the placement flags, from any
\* ---- earlier placement of the modules
Tiers == {"train", "temp"}

InitDevice ==
    /\ config \in {Config(a, 1, b, 1, e, p, l, FALSE) :
                      a \in BOOLEAN, b \in BOOLEAN, e \in BOOLEAN,
                      p \in BOOLEAN, l \in BOOLEAN}
    /\ args = Unbound
    /\ debug_mode \in BOOLEAN
    /\ model \in {[LoadedModel(0, 0, <<>>, ZeroWeight, "none", "none") EXCEPT
                      !.text_encoder_device = t, !.vae_device = v,
                      !.unet_device = u, !.depth_estimator_device = d] :
                     t \in Tiers, v \in Tiers, u \in Tiers, d \in Tiers}
    /\ obs = NoCall
    /\ sink = <<>>

NextDevice == setup_train_device

SpecDevice == InitDevice /\ [][NextDevice]_vars

\* ---- gradient modes and tiers together: every combination of the flags
\* ---- the placement reads, a freshly loaded model on the temp tier
InitTier ==
    /\ config \in {Config(a, 1, b, 1, e, p, l, FALSE) :
                      a \in BOOLEAN, b \in BOOLEAN, e \in BOOLEAN,
                      p \in BOOLEAN, l \in BOOLEAN}
    /\ args \in {Unbound} \cup {Args(e, 1, u, 1) : e \in BOOLEAN, u \in BOOLEAN}
    /\ debug_mode = FALSE
    /\ model = LoadedModel(0, 0, <<>>, ZeroWeight, "none", "none")
    /\ obs = NoCall
    /\ sink = <<>>

NextTier ==
    \/ setup_model
    \/ setup_train_device
    \/ after_optimizer_step
    \/ AdvanceEpoch

SpecTier == InitTier /\ [][NextTier]_vars

\* ---- the learning-rate report: every combination of the three trainable
\* ---- flags (the ambient args, when bound, agreeing with the passed
\* ---- config), any number of rates from the scheduler
InitReport ==
    /\ config \in {Config(a, 1, b, 1, e, FALSE, TRUE, r) :
                      a \in BOOLEAN, b \in BOOLEAN, e \in BOOLEAN, r \in BOOLEAN}
    /\ args \in {Unbound, Args(config.train_embedding, 1, config.unet_train, 1)}
    /\ debug_mode = FALSE
    /\ model = LoadedModel(0, 0, <<>>, ZeroWeight, "none", "none")
    /\ obs = NoCall
    /\ sink = <<>>

NextReport ==
    \/ setup_model
    \/ report_learning_rates
    \/ AdvanceStep

SpecReport == InitReport /\ [][NextReport]_vars

\* ================================================================ claims

Returned(op) == obs.last_op = op /\ obs.outcome = "ok"

\* C1: on a model whose snapshot and mask setup_model has taken, after any
\* optimizer update, when after_optimizer_step returns every frozen row
\* (mask true) holds its snapshot value and every trainable row (mask false)
\* holds the value it had when the call began.
C1_RestoreKeepsSnapshotAndUpdates ==
    [][(obs'.last_op = "after_optimizer_step" /\ obs'.outcome = "ok") =>
          \A r \in Rows :
              IF model'.untrainable_mask[r]
              THEN model'.weight[r] = model'.original_token_embeds[r]
              ELSE model'.weight[r] = model.weight[r]]_vars

\* a call that repaired a perturbed frozen row and kept an updated trainable row
C1_Witness ==
    /\ Returned("after_optimizer_step")
    /\ obs.repaired
    /\ \E r \in Rows : model.untrainable_mask[r]
    /\ \E r \in Rows :
          ~model.untrainable_mask[r] /\ model.weight[r] # model.original_token_embeds[r]

\* C2: every call of after_optimizer_step on a model that has its snapshot
\* completes and leaves no frozen row perturbed, whatever the configuration,
\* the epoch and the gradient modes are.
C2_RestoreOnEveryCall ==
    [][(obs'.last_op = "after_optimizer_step" /\ HasSnapshot(model)) =>
          /\ obs'.outcome = "ok"
          /\ ~FrozenRowsPerturbed(model')]_vars

\* a restore that repaired a row with embedding training disabled in both
\* configuration objects and every gradient mode off
C2_Witness ==
    /\ Returned("after_optimizer_step")
    /\ obs.repaired
    /\ ~config.train_embedding /\ ~args.train_embedding
    /\ ~model.embedding_grad /\ ~model.te_lora_grad /\ ~model.unet_lora_grad

\* the same with the embedding window closed
C2_WitnessWindowClosed ==
    /\ Returned("after_optimizer_step")
    /\ obs.repaired
    /\ args.train_embedding /\ model.epoch >= args.train_embedding_epochs
    /\ ~model.embedding_grad

\* C3: when setup_model or after_optimizer_step returns, the text-encoder
\* adapter takes gradients iff the config trains the text encoder and the
\* epoch stored on the model is below the text encoder's stop epoch.
C3_TextEncoderAdapterMode ==
    (Returned("setup_model") \/ Returned("after_optimizer_step")) =>
        (model.te_lora_grad <=>
            (config.text_encoder_train /\ model.epoch < config.text_encoder_stop))

\* a step that left the adapter off because its stop epoch had elapsed
C3_Witness ==
    /\ Returned("after_optimizer_step")
    /\ config.text_encoder_train
    /\ config.text_encoder_stop > 0
    /\ model.epoch >= config.text_encoder_stop
    /\ ~model.te_lora_grad

\* C4 (as claimed): when setup_model or after_optimizer_step returns, the
\* denoiser adapter takes gradients iff the passed config trains the denoiser
\* and the epoch is below the denoiser's stop epoch.
C4_Original ==
    (Returned("setup_model") \/ Returned("after_optimizer_step")) =>
        (model.unet_lora_grad <=>
            (config.unet_train /\ model.epoch < config.unet_stop))

C6_Original ==
    (/\ obs.last_op = "report_learning_rates"
     /\ model.optimizer.built
     /\ Len(obs.lrs) = Len(model.optimizer.groups)) =>
        /\ obs.outcome = "ok"
        /\ Len(sink) = obs.sink_before + Len(model.optimizer.groups)
        /\ \A i \in 1..Len(model.optimizer.groups) :
              sink[obs.sink_before + i].name = "lr/" \o model.optimizer.groups[i]

\* C7: report_learning_rates ends in an AssertionError whenever the number
\* of rates differs from the number of names, with nothing written to the
\* sink and the hook not called; otherwise it writes one metric per name, in
\* order, each tagged with the model's global step.
C7_ReportAssertsCounts ==
    obs.last_op = "report_learning_rates" =>
        LET names == ReportNames(config)
        IN IF Len(obs.lrs) # Len(names)
           THEN /\ obs.outcome = "AssertionError"
                /\ Len(sink) = obs.sink_before
                /\ obs.hook_calls = 0
           ELSE /\ obs.outcome = "ok"
                /\ Len(sink) = obs.sink_before + Len(names)
                /\ \A i \in 1..Len(names) :
                      /\ sink[obs.sink_before + i].name = "lr/" \o names[i]
                      /\ sink[obs.sink_before + i].step = model.global_step

\* a failed report with too many rates that left earlier metrics alone
C7_Witness ==
    /\ obs.last_op = "report_learning_rates"
    /\ obs.outcome = "AssertionError"
    /\ Len(obs.lrs) > Len(ReportNames(config))
    /\ Len(ReportNames(config)) > 0
    /\ obs.sink_before > 0
    /\ Len(sink) = obs.sink_before

\* a report of two rates under two names at a later step
C7_WitnessWritten ==
    /\ obs.last_op = "report_learning_rates"
    /\ obs.outcome = "ok"
    /\ Len(obs.lrs) = 2
    /\ model.global_step > 0
    /\ Len(sink) = obs.sink_before + 2

\* C8: after setup_train_device the text encoder is on the train tier iff
\* the text encoder trains or the embedding trains or align-prop is on or
\* latent caching is off; the autoencoder iff debug mode or align-prop; the
\* denoiser always on the train tier; the depth estimator always on the temp
\* tier; whatever the tiers were before the call.
C8_DevicePlacement ==
    obs.last_op = "setup_train_device" =>
        /\ (model.text_encoder_device = "train") <=>
              (\/ config.text_encoder_train \/ config.train_embedding
               \/ config.align_prop \/ ~config.latent_caching)
        /\ (model.vae_device = "train") <=> (debug_mode \/ config.align_prop)
        /\ model.unet_device = "train"
        /\ model.depth_estimator_device = "temp"
        /\ {model.text_encoder_device, model.vae_device} \subseteq Tiers

\* latent caching off alone puts the text encoder on the train tier
C8_Witness ==
    /\ obs.last_op = "setup_train_device"
    /\ ~config.text_encoder_train /\ ~config.train_embedding
    /\ ~config.align_prop /\ ~config.latent_caching /\ ~debug_mode
    /\ model.text_encoder_device = "train"
    /\ model.vae_device = "temp"

\* C9 (as claimed): once the snapshot and the mask exist, no call replaces
\* or changes them.
C9_Original ==
    [][HasSnapshot(model) =>
          /\ model'.original_token_embeds = model.original_token_embeds
          /\ model'.untrainable_mask = model.untrainable_mask]_vars

\* C10: a wrapper is constructed only into an empty slot, a filled slot keeps
\* its wrapper over every call, and no base module gets a second wrapper.
C10_AdaptersCreatedOnce ==
    [][/\ model.text_encoder_lora # 0 => model'.text_encoder_lora = model.text_encoder_lora
       /\ model.unet_lora # 0 => model'.unet_lora = model.unet_lora
       /\ model'.te_wrappers_made > model.te_wrappers_made => model.text_encoder_lora = 0
       /\ model'.unet_wrappers_made > model.unet_wrappers_made => model.unet_lora = 0
       /\ model'.te_wrappers_made <= 1
       /\ model'.unet_wrappers_made <= 1]_vars

\* after two setup_model calls: one wrapper constructed by the first call,
\* the other supplied by the loader, both still in their slots
C10_Witness ==
    /\ obs.setup_calls = 2
    /\ model.text_encoder_lora = 2 /\ model.te_wrappers_made = 1
    /\ model.unet_lora = 1 /\ model.unet_wrappers_made = 0

\* C11: each prior state, of the optimizer and of the EMA tracker, is handed
\* to its factory at most once over the whole run; when setup_model has
\* returned, both raw prior states are gone from the model, both objects
\* are built, and a prior state that the loader supplied was used exactly
\* once; a model that no longer holds a prior state never holds it again.
C11_PriorStateConsumedOnce ==
    /\ model.optimizer_state_uses <= 1
    /\ model.ema_state_uses <= 1
    /\ (model.optimizer_state_uses = 1 => model.optimizer_state_dict = "deleted")
    /\ (model.ema_state_uses = 1 => model.ema_state_dict = "deleted")
    /\ (Returned("setup_model") =>
          /\ model.optimizer_state_dict = "deleted"
          /\ model.ema_state_dict = "deleted"
          /\ model.optimizer.built /\ model.ema.built
          /\ (model.optimizer.resumed <=> model.optimizer_state_uses = 1)
          /\ (model.ema.resumed <=> model.ema_state_uses = 1))

\* a second setup_model call and a later after_optimizer_step on a model
\* that was resumed from both prior states
C11_Witness ==
    /\ obs.setup_calls = 2
    /\ obs.last_op = "after_optimizer_step"
    /\ model.optimizer.resumed /\ model.optimizer_state_uses = 1
    /\ model.ema.resumed /\ model.ema_state_uses = 1
    /\ model.optimizer_state_dict = "deleted"
    /\ model.ema_state_dict = "deleted"

\* the gradient modes and the embedding matrix rows of a model
GradModes(m) ==
    <<m.te_lora_grad, m.unet_lora_grad, m.embedding_grad,
      m.text_encoder_grad, m.unet_grad, m.vae_grad>>

\* C12: an after_optimizer_step call on a model that setup_model has not
\* touched (no adapters, no snapshot, no mask) ends in an error, and the
\* model's gradient modes and embedding rows are what they were before
\* the call.
C12_Original ==
    [][(/\ obs.setup_calls = 0
        /\ model.text_encoder_lora = 0 /\ model.unet_lora = 0
        /\ ~HasSnapshot(model)
        /\ obs'.last_op = "after_optimizer_step")
       => (/\ obs'.outcome # "ok"
           /\ GradModes(model') = GradModes(model)
           /\ model'.weight = model.weight)]_vars

\* C13: in every setup_model call that takes the snapshot: a model that
\* came with no embedding leaves with exactly one, the one created from
\* the seed text; a model that came with embeddings leaves with the same
\* list; the list is not empty when the snapshot is taken, the snapshot is
\* a copy of the matrix, and the mask marks exactly the token rows of the
\* first embedding as trainable.
C13_EmbeddingCreatedWhenAbsent ==
    [][(obs'.last_op = "setup_model" /\ model'.snapshots_taken > model.snapshots_taken)
       => (/\ IF Len(model.embeddings) = 0
              THEN model'.embeddings = <<create_new_embedding>>
              ELSE model'.embeddings = model.embeddings
           /\ Len(model'.embeddings) > 0
           /\ model'.original_token_embeds = model.weight
           /\ \A r \in Rows : model'.untrainable_mask[r] <=> r \notin model'.embeddings[1])]_vars

\* setup_model has returned on a model that came without an embedding: the
\* created embedding's row is trainable, the vocabulary's rows are frozen
C13_Witness ==
    /\ Returned("setup_model")
    /\ model.embeddings = <<NewTokenIds>>
    /\ \A r \in Rows : model.untrainable_mask[r] <=> r \notin NewTokenIds

\* setup_model has returned on a model that came with the loader's embedding
C13_WitnessLoaded ==
    /\ Returned("setup_model")
    /\ model.embeddings = <<LoaderTokenIds>>
    /\ \A r \in Rows : model.untrainable_mask[r] <=> r \notin LoaderTokenIds

\* C14: with the run's fixed config and an epoch that only grows, an
\* after_optimizer_step call made when a module's stop epoch has been
\* reached and the module's gradients are disabled leaves them disabled,
\* for the text-encoder adapter, the denoiser adapter and the embedding
\* matrix; and every such call made at or after the stop epoch of a
\* trained adapter leaves that adapter disabled.
C14_DisablingIsPermanent ==
    [][(obs'.last_op = "after_optimizer_step")
       => (/\ (model.epoch >= config.text_encoder_stop /\ ~model.te_lora_grad
                  => ~model'.te_lora_grad)
           /\ (model.epoch >= config.unet_stop /\ ~model.unet_lora_grad
                  => ~model'.unet_lora_grad)
           /\ (model.epoch >= args.train_embedding_epochs /\ ~model.embedding_grad
                  => ~model'.embedding_grad)
           /\ (model.text_encoder_lora # 0 /\ model.epoch >= config.text_encoder_stop
                  => ~model'.te_lora_grad)
           /\ (model.unet_lora # 0 /\ model.epoch >= config.unet_stop
                  => ~model'.unet_lora_grad))]_vars

\* an after_optimizer_step call has returned past the stop epochs of all
\* three, each stop epoch being later than epoch 0, with all three disabled
C14_Witness ==
    /\ Returned("after_optimizer_step")
    /\ config.text_encoder_train /\ config.unet_train /\ args.train_embedding
    /\ config.text_encoder_stop > 0 /\ model.epoch > config.text_encoder_stop
    /\ config.unet_stop > 0 /\ model.epoch > config.unet_stop
    /\ args.train_embedding_epochs > 0 /\ model.epoch > args.train_embedding_epochs
    /\ ~model.te_lora_grad /\ ~model.unet_lora_grad /\ ~model.embedding_grad

\* the modules whose flag in the passed config is active, in the order
\* text-encoder adapter, embedding matrix, denoiser adapter
ActiveInConfig(c) ==
    (IF c.text_encoder_train THEN <<"te">> ELSE <<>>)
    \o (IF c.train_embedding THEN <<"emb">> ELSE <<>>)
    \o (IF c.unet_train THEN <<"unet">> ELSE <<>>)

\* C15: when setup_model has returned, at whatever epoch it ran, the
\* optimizer's groups and the EMA tracker's list are both exactly the
\* modules whose flag in the passed config is active, in the fixed order,
\* and so cover the same modules in the same order.
C15_Original ==
    Returned("setup_model") =>
        /\ model.optimizer.groups = ActiveInConfig(config)
        /\ model.ema.params = ActiveInConfig(config)
        /\ model.optimizer.groups = model.ema.params

\* C16: an after_optimizer_step call that directly follows one that
\* returned, on the same model at the same epoch with no optimizer update
\* in between, returns too and leaves every gradient mode and every row of
\* the embedding matrix as the first call left them.
C16_StepIsIdempotent ==
    [][(Returned("after_optimizer_step") /\ obs'.last_op = "after_optimizer_step")
       => (/\ obs'.outcome = "ok"
           /\ GradModes(model') = GradModes(model)
           /\ model'.weight = model.weight)]_vars

\* a second call in a row has returned, past the embedding's window, on a
\* matrix whose trainable row an optimizer update moved off the snapshot
C16_Witness ==
    /\ Returned("after_optimizer_step")
    /\ obs.repeat
    /\ args.train_embedding /\ model.epoch >= args.train_embedding_epochs
    /\ ~model.embedding_grad
    /\ \E r \in Rows : ~model.untrainable_mask[r] /\ model.weight[r] # model.original_token_embeds[r]

\* C17: an after_optimizer_step(model, config, train_progress) call that
\* returns leaves disabled every module whose stop epoch the epoch of its
\* train_progress argument has reached, whatever epoch is stored on the
\* model: the text-encoder adapter, the denoiser adapter and the embedding
\* matrix.
C17_Original ==
    [][\A train_progress \in Epochs :
          (after_optimizer_step_call(train_progress) /\ obs'.outcome = "ok")
          => (/\ (train_progress >= config.text_encoder_stop => ~model'.te_lora_grad)
              /\ (train_progress >= config.unet_stop => ~model'.unet_lora_grad)
              /\ (args.train_embedding /\ train_progress >= args.train_embedding_epochs
                     => ~model'.embedding_grad))]_vars

\* C18: when setup_model has returned, the own weights of the text
\* encoder, the denoiser and the autoencoder have gradients disabled, and
\* the embedding matrix has them enabled only if embedding training is on
\* and the epoch is inside its window; an after_optimizer_step call,
\* returning or not, enables gradients on none of the four.
C18_BaseWeightsNeverTrain ==
    [][/\ (obs'.last_op = "setup_model" /\ obs'.outcome = "ok")
          => (/\ ~model'.text_encoder_grad /\ ~model'.unet_grad /\ ~model'.vae_grad
              /\ (model'.embedding_grad =>
                    args.train_embedding /\ model'.epoch < args.train_embedding_epochs))
       /\ (obs'.last_op = "after_optimizer_step")
          => (/\ (model'.text_encoder_grad => model.text_encoder_grad)
              /\ (model'.unet_grad => model.unet_grad)
              /\ (model'.vae_grad => model.vae_grad)
              /\ (model'.embedding_grad => model.embedding_grad))]_vars

\* after setup_model and an after_optimizer_step call that returned inside
\* the embedding's window: the base weights are frozen, the matrix trains
C18_Witness ==
    /\ Returned("after_optimizer_step")
    /\ ~model.text_encoder_grad /\ ~model.unet_grad /\ ~model.vae_grad
    /\ model.embedding_grad
    /\ args.train_embedding /\ model.epoch < args.train_embedding_epochs

\* C19: once setup_model has returned and setup_train_device has run with
\* the same config, and through every later after_optimizer_step call: if
\* the text-encoder adapter or the embedding matrix accepts gradients the
\* text encoder is on the train tier, and if the denoiser adapter accepts
\* gradients the denoiser is on the train tier.
C19_Original ==
    (obs.setup_calls = 1 /\ model.optimizer.built /\ obs.placed) =>
        /\ (model.te_lora_grad \/ model.embedding_grad
               => model.text_encoder_device = "train")
        /\ (model.unet_lora_grad => model.unet_device = "train")

====
